---- MODULE Spec2Model ----
(***************************************************************************)
(* The memoization and cache-registry layer of jax/_src/util.py:           *)
(* cache(), memoize, weakref_lru_cache(), register_cache() and             *)
(* clear_all_caches(), together with the functools.lru_cache object and    *)
(* the weakref.WeakKeyDictionary they are built on; and the equality       *)
(* wrappers HashableFunction, HashablePartial and HashableWrapper.         *)
(***************************************************************************)
EXTENDS Integers, Sequences, FiniteSets, TLC

\* ------------------------------------------------------------------ bounds
NumHandles == 2     \* cache handles the program may construct
NumArgs == 2        \* distinct values of the positional argument
NumContexts == 2    \* distinct ambient trace-context values
MaxSize == 2        \* largest integer max_size given to cache()
MaxCalls == 4       \* calls made on one cache (caps hits, misses, invocations)
NumThreads == 2     \* threads calling one cache concurrently
NumCodes == 2       \* distinct code objects of wrapped functions
NumValues == 5      \* Python values the equality wrappers are built from

Handles == 1..NumHandles
Args == 1..NumArgs
Contexts == 1..NumContexts
Threads == 1..NumThreads

\* The sentinel functools._make_key puts between positional and keyword parts.
KwdMark == 0

\* ------------------------------------------------------------------ inputs
\* Keyword arguments as the call site wrote them: a sequence of <<name, value>>.
KwOrders == { << <<1, 1>>, <<2, 2>> >>, << <<2, 2>>, <<1, 1>> >> }

\* What a call site passes: one positional argument, with or without keywords.
CallInputs ==
  { [args |-> <<a>>, kwargs |-> << >>] : a \in Args }
    \cup { [args |-> <<1>>, kwargs |-> k] : k \in KwOrders }

\* max_size as given to cache(): None, or an integer (possibly negative).
MaxSizeArgs ==
  { [none |-> TRUE, n |-> 0] } \cup { [none |-> FALSE, n |-> k] : k \in (-1)..MaxSize }

\* ------------------------------------------------------------------ state
VARIABLES
  caches,    \* handle -> the lru_cache object behind it and its configuration
  stage,     \* handle -> "unborn" | "live" | "dead" (deallocated)
  owner,     \* handle -> TRUE while the creating module still references it
  data,      \* _caches.data: the weak keys, in dict insertion order
  pending,   \* _caches._pending_removals: dead keys awaiting removal
  sweep,     \* the frame of clear_all_caches() while it iterates
  threads,   \* thread -> the call it is executing on a cache, if any
  ret,       \* what the last completed call handed back, and whether it ran f
  hist,      \* handle -> what was asked of the cache since it was last empty
  refs,      \* first-argument object -> TRUE while the program references it
  pair       \* the two wrapper objects under comparison, if any

vars == <<caches, stage, owner, data, pending, sweep, threads, ret, hist,
          refs, pair>>

\* ------------------------------------------------------------------ helpers
Max(a, b) == IF a >= b THEN a ELSE b

RECURSIVE Flatten(_)
Flatten(kw) == IF kw = << >> THEN << >> ELSE kw[1] \o Flatten(Tail(kw))

\* A key that takes two keyword items in the order of their names.
MakeKeyByName(args, kwargs) ==
  IF kwargs = << >> THEN args
  ELSE IF Len(kwargs) = 2 /\ kwargs[1][1] > kwargs[2][1]
    THEN args \o <<KwdMark>> \o Flatten(<<kwargs[2], kwargs[1]>>)
  ELSE args \o <<KwdMark>> \o Flatten(kwargs)

\* functools._make_key(args, kwds, typed=False): args, then the mark and the
\* keyword items in the order the dict yields them (call order).
MakeKey(args, kwargs) ==
  IF kwargs = << >> THEN args ELSE args \o <<KwdMark>> \o Flatten(kwargs)

\* The wrapped function f(*args, **kwargs): its value depends on the
\* arguments only; f sees the keywords as a dict.
UserFunction(args, kwargs) ==
  [args |-> args, kw |-> { kwargs[i] : i \in DOMAIN kwargs }]

NoValue == [args |-> << >>, kw |-> {}]
Returned(v, invoked) == [ok |-> TRUE, val |-> v, invoked |-> invoked]
Raised == [ok |-> FALSE, val |-> NoValue, invoked |-> TRUE]
NoReturn == [ok |-> FALSE, val |-> NoValue, invoked |-> FALSE]

\* ------------------------------------------------------------- lru_cache
NoEntries == [k \in {} |-> NoValue]

\* functools.lru_cache(maxsize)(fn): negative sizes are clamped to 0.  The
\* object is a dict from key to result and, when bounded, the recency list
\* of its keys (oldest first).
NewLruCache(kind, size, tcik) ==
  [kind |-> kind, tcik |-> tcik, unbounded |-> size.none,
   maxsize |-> IF size.none THEN 0 ELSE Max(size.n, 0),
   cache |-> NoEntries, order |-> << >>, hits |-> 0, misses |-> 0]

FreshCache == NewLruCache("none", [none |-> FALSE, n |-> 0], FALSE)

Keys(s) == DOMAIN s.cache

\* cache_info().currsize
CurrSize(s) == Cardinality(Keys(s))

Without(seq, key) == SelectSeq(seq, LAMBDA k : k # key)

Uncached(s) == ~s.unbounded /\ s.maxsize = 0

\* A cache_clear() that resets the counters and forgets the entries.
CacheClearedKeepsEntries(s) == [s EXCEPT !.hits = 0, !.misses = 0]

\* cache_clear(): drops every entry and resets the counters.
CacheCleared(s) ==
  [s EXCEPT !.cache = NoEntries, !.order = << >>, !.hits = 0, !.misses = 0]

\* First half of a call on the lru_cache object: the lookup.  A hit moves the
\* entry to the most-recent end (bounded caches) and counts; a miss counts.
IsHit(s, key) == ~Uncached(s) /\ key \in Keys(s)

\* A hit that counts but leaves the entry where it was in the recency list.
LookupHitKeepsOrder(s, key) == [s EXCEPT !.hits = @ + 1]

LookupHit(s, key) ==
  [s EXCEPT !.hits = @ + 1,
            !.order = IF s.unbounded THEN @ ELSE Append(Without(@, key), key)]

LookupMiss(s) == [s EXCEPT !.misses = @ + 1]

Put(d, key, val) == [k \in DOMAIN d \cup {key} |-> IF k = key THEN val ELSE d[k]]
Drop(d, key) == [k \in DOMAIN d \ {key} |-> d[k]]

\* A store that makes room one entry too early.
StoreEvictsEarly(s, key, val) ==
  IF Uncached(s) THEN s
  ELSE IF s.unbounded THEN [s EXCEPT !.cache = Put(@, key, val)]
  ELSE IF key \in Keys(s) THEN s
  ELSE IF s.order # << >> /\ Len(s.order) + 1 >= s.maxsize
    THEN [s EXCEPT !.cache = Put(Drop(@, Head(s.order)), key, val),
                   !.order = Append(Tail(@), key)]
  ELSE [s EXCEPT !.cache = Put(@, key, val), !.order = Append(@, key)]

\* A store that gives up the newest entry instead of the oldest.
StoreEvictsNewest(s, key, val) ==
  IF Uncached(s) THEN s
  ELSE IF s.unbounded THEN [s EXCEPT !.cache = Put(@, key, val)]
  ELSE IF key \in Keys(s) THEN s
  ELSE IF Len(s.order) >= s.maxsize
    THEN [s EXCEPT !.cache = Put(Drop(@, s.order[Len(s.order)]), key, val),
                   !.order = Append(SubSeq(@, 1, Len(@) - 1), key)]
  ELSE [s EXCEPT !.cache = Put(@, key, val), !.order = Append(@, key)]

\* A store that does not look for the key again after the function returned.
StoreNoRecheck(s, key, val) ==
  IF Uncached(s) THEN s
  ELSE IF s.unbounded THEN [s EXCEPT !.cache = Put(@, key, val)]
  ELSE IF Len(s.order) >= s.maxsize
    THEN [s EXCEPT !.cache = Put(Drop(@, Head(s.order)), key, val),
                   !.order = Append(Tail(@), key)]
  ELSE [s EXCEPT !.cache = Put(@, key, val), !.order = Append(@, key)]

\* A store that never gives up an entry.
StoreKeepsAll(s, key, val) ==
  IF Uncached(s) THEN s
  ELSE IF s.unbounded THEN [s EXCEPT !.cache = Put(@, key, val)]
  ELSE IF key \in Keys(s) THEN s
  ELSE [s EXCEPT !.cache = Put(@, key, val), !.order = Append(@, key)]

\* Second half, after the user function returned val: store the result.  A
\* bounded cache that already holds the key (stored meanwhile by another
\* thread) is left alone; a full one gives up its oldest entry.
Store(s, key, val) ==
  IF Uncached(s) THEN s
  ELSE IF s.unbounded THEN [s EXCEPT !.cache = Put(@, key, val)]
  ELSE IF key \in Keys(s) THEN s
  ELSE IF Len(s.order) >= s.maxsize
    THEN [s EXCEPT !.cache = Put(Drop(@, Head(s.order)), key, val),
                   !.order = Append(Tail(@), key)]
  ELSE [s EXCEPT !.cache = Put(@, key, val), !.order = Append(@, key)]

\* A miss that stores a result even when the function raised.
MissedCachesFailure(s, key, ok, val) == Store(LookupMiss(s), key, val)

\* A miss that is not counted when the function raises.
MissedUncounted(s, key, ok, val) ==
  IF ok THEN Store(LookupMiss(s), key, val) ELSE s

\* A miss as a whole: count it, invoke the user function, and store the result
\* only if the function returned (an exception leaves the lookup's count).
Missed(s, key, ok, val) ==
  IF ok THEN Store(LookupMiss(s), key, val) ELSE LookupMiss(s)

\* ---------------------------------------------------------------- cache()
\* A wrapper that leaves the trace context out of the key.
WrapperKeyNoContext(s, ctx, inp) == MakeKey(inp.args, inp.kwargs)

\* The key the wrapper hands to the lru_cache object: cached(ctx, *args,
\* **kwargs) when trace_context_in_key, the bare arguments otherwise.
WrapperKey(s, ctx, inp) ==
  IF s.tcik THEN MakeKey(<<ctx>> \o inp.args, inp.kwargs)
  ELSE MakeKey(inp.args, inp.kwargs)

\* wrapper(): config.check_tracer_leaks.value is consulted only by the
\* wrapper that trace_context_in_key=True builds.
Bypass(s, leak) == s.kind = "cache" /\ s.tcik /\ leak

\* wrapper(*args, **kwargs) run to completion on the lru_cache object s, under
\* the ambient trace context ctx and leak-check flag leak; ok says whether the
\* wrapped function returns or raises if it is invoked.  Yields the object
\* afterwards, what the caller gets, and whether the cache itself invoked f.
Wrapper(s, inp, ctx, leak, ok) ==
  LET key == WrapperKey(s, ctx, inp)
      val == UserFunction(inp.args, inp.kwargs)
      out == IF ok THEN Returned(val, TRUE) ELSE Raised
  IN IF Bypass(s, leak) THEN [s |-> s, ret |-> out, miss |-> FALSE]
     ELSE IF IsHit(s, key)
       THEN [s |-> LookupHit(s, key), ret |-> Returned(s.cache[key], FALSE),
             miss |-> FALSE]
     ELSE [s |-> Missed(s, key, ok, val), ret |-> out, miss |-> TRUE]

\* ---------------------------------------------------------------- history
\* What the caller of one cache has seen since the cache was constructed or
\* last cleared: the calls (ambient context and arguments as passed) for which
\* the cache invoked f (tried) and for which f then returned (done), and the
\* first of them.  The record is kept while the distinct keys asked for number
\* at most one more than the capacity.
CallId(ctx, inp) == [ctx |-> ctx, args |-> inp.args, kwargs |-> inp.kwargs]

\* The key of a call as the cache's contract names it: trace context (when it
\* is part of the key), positional arguments, keyword arguments.
ContractKey(s, id) == [id EXCEPT !.ctx = IF s.tcik THEN @ ELSE 0]
SameKey(s, id1, id2) == ContractKey(s, id1) = ContractKey(s, id2)
DistinctKeys(s, ids) == Cardinality({ ContractKey(s, id) : id \in ids })

NoHist == [scope |-> TRUE, first |-> << >>, tried |-> {}, done |-> {}]
LostHist == [scope |-> FALSE, first |-> << >>, tried |-> {}, done |-> {}]

Invoked(s, h, id, ok) ==
  IF ~h.scope THEN h
  ELSE IF ~s.unbounded /\ DistinctKeys(s, h.tried \cup {id}) > s.maxsize + 1
    THEN LostHist
  ELSE [scope |-> TRUE,
        first |-> IF h.first = << >> THEN <<id>> ELSE h.first,
        tried |-> h.tried \cup {id},
        done |-> IF ok THEN h.done \cup {id} ELSE h.done]

\* ------------------------------------------------------- weakref_lru_cache
\* _ignore(): the context function of a cache without trace_context_in_key.
NoContext == 0

\* The context function handed to the cache: config.trace_context or _ignore.
CacheContext(s, ctx) == IF s.tcik THEN ctx ELSE NoContext

RECURSIVE InsertKw(_, _)
InsertKw(item, sorted) ==
  IF sorted = << >> THEN <<item>>
  ELSE IF item[1] <= sorted[1][1] THEN <<item>> \o sorted
  ELSE <<sorted[1]>> \o InsertKw(item, Tail(sorted))

RECURSIVE SortedKw(_)
SortedKw(kw) == IF kw = << >> THEN << >> ELSE InsertKw(kw[1], SortedKw(Tail(kw)))

\* key = optional(context-value) + args + sorted(kwargs)
WeakrefKey(s, ctx, inp) ==
  <<CacheContext(s, ctx)>> \o MakeKey(inp.args, SortedKw(inp.kwargs))

\* The values a call's first argument takes: objects, which support weak
\* references, and a primitive value, which does not.
Objects == Args
Primitive == 0

\* A cache that takes a weak reference to whatever it is given.
AnyReferenceable(x) == TRUE

WeakReferenceable(x) == x \in Objects

\* A call on the object weakref_lru_cache() returns.  A first argument that
\* cannot be weakly referenced makes it a direct call of the function; else
\* lookup, and on a miss invoke, store unless the function failed, evict the
\* least recently used.
WeakrefCall(s, inp, ctx, ok) ==
  LET key == WeakrefKey(s, ctx, inp)
      val == UserFunction(inp.args, inp.kwargs)
      out == IF ok THEN Returned(val, TRUE) ELSE Raised
  IN IF ~WeakReferenceable(inp.args[1])
       THEN [s |-> s, ret |-> out, miss |-> FALSE]
     ELSE IF IsHit(s, key)
       THEN [s |-> LookupHit(s, key), ret |-> Returned(s.cache[key], FALSE),
             miss |-> FALSE]
     ELSE [s |-> Missed(s, key, ok, val), ret |-> out, miss |-> TRUE]

\* The entries of s whose first argument is x (the key is the context value,
\* then the arguments), and s without them.
KeyedBy(s, x) == { key \in Keys(s) : key[2] = x }
Forget(s, x) ==
  [s EXCEPT !.cache = [k \in Keys(s) \ KeyedBy(s, x) |-> s.cache[k]],
            !.order = SelectSeq(@, LAMBDA k : k[2] # x)]

\* A call on a registered cache handle of either kind.
CallOn(s, inp, ctx, leak, ok) ==
  IF s.kind = "weakref_lru_cache" THEN WeakrefCall(s, inp, ctx, ok)
  ELSE Wrapper(s, inp, ctx, leak, ok)

\* ---------------------------------------------------------------- registry
IdleSweep == [pc |-> "idle", pos |-> 0, used |-> 0, cur |-> 0, cleared |-> {},
              emptied |-> {}, outcome |-> "none"]
IdleThread == [pc |-> "idle", c |-> 0, ctx |-> 0,
               inp |-> [args |-> << >>, kwargs |-> << >>], mode |-> "none"]

\* No wrapper objects are under comparison.
NoPair == << >>

\* The caches and their registry before anything is constructed.
InitRegistry ==
  /\ caches = [c \in Handles |-> FreshCache]
  /\ stage = [c \in Handles |-> "unborn"]
  /\ owner = [c \in Handles |-> FALSE]
  /\ data = << >>
  /\ pending = {}
  /\ sweep = IdleSweep
  /\ threads = [t \in Threads |-> IdleThread]
  /\ ret = NoReturn
  /\ hist = [c \in Handles |-> NoHist]
  /\ refs = [x \in Objects |-> TRUE]

Init == InitRegistry /\ pair = NoPair

Registered(d) == { d[i] : i \in DOMAIN d }

\* The keys _caches has (len(), keys()): those of its dict, less the ones
\* whose removal is pending.
RegistryKeys == Registered(data) \ pending

\* A register_cache() that registers nothing.
RegisterCacheForgets(d, c) == d

\* register_cache(cache, for_what): _caches[cache] = for_what.  The key is a
\* weak reference to a new object, so the dict gains an item at its end.
RegisterCache(d, c) == Append(d, c)

\* keys() that iterates without an _IterationGuard.
Unguarded == FALSE

\* _caches._iterating: non-empty while the generator of keys() is suspended
\* inside its _IterationGuard.
Iterating == sweep.pc = "iter"

\* Is a thread executing a call on c (its frame holds the handle)?
OnThread(c) == \E t \in Threads : threads[t].pc # "idle" /\ threads[t].c = c

\* References that keep a handle alive as if _caches were an ordinary dict.
ReferencedByRegistry(c, own, cur) ==
  own[c] \/ cur = c \/ OnThread(c) \/ c \in Registered(data)

\* The strong references to a handle: its owner's, the loop variable of
\* clear_all_caches(), a running call.  _caches holds it weakly and adds none.
Referenced(c, own, cur) == own[c] \/ cur = c \/ OnThread(c)

\* The weak-reference callback remove(k) of _caches for the handles that die:
\* deferred to _pending_removals while a keys() iteration is under way.
DataAfter(dying) ==
  IF Iterating THEN data ELSE SelectSeq(data, LAMBDA k : k \notin dying)
PendingAfter(dying) == IF Iterating THEN pending \cup dying ELSE pending

\* Deallocation of the handles in dying.
Buried(f, dying, blank) == [c \in Handles |-> IF c \in dying THEN blank ELSE f[c]]

\* cache(max_size, trace_context_in_key)(f) or weakref_lru_cache(f, maxsize,
\* trace_context_in_key): build the cache object and register it.
Construct(c, kind, size, tcik) ==
  /\ stage[c] = "unborn"
  /\ caches' = [caches EXCEPT ![c] = NewLruCache(kind, size, tcik)]
  /\ stage' = [stage EXCEPT ![c] = "live"]
  /\ owner' = [owner EXCEPT ![c] = TRUE]
  /\ data' = RegisterCache(data, c)
  /\ UNCHANGED <<pending, sweep, threads, ret, hist, refs, pair>>

\* One whole call by a single thread.
Call(c, inp, ctx, leak, ok) ==
  /\ stage[c] = "live" /\ owner[c]
  /\ caches[c].hits + caches[c].misses < MaxCalls
  /\ LET r == CallOn(caches[c], inp, ctx, leak, ok)
     IN /\ caches' = [caches EXCEPT ![c] = r.s]
        /\ ret' = r.ret
        /\ hist' = IF r.miss
                     THEN [hist EXCEPT ![c] = Invoked(caches[c], @, CallId(ctx, inp), ok)]
                     ELSE hist
  /\ UNCHANGED <<stage, owner, data, pending, sweep, threads, refs, pair>>

\* wrapper.cache_clear()
CacheClear(c) ==
  /\ stage[c] = "live" /\ owner[c]
  /\ caches' = [caches EXCEPT ![c] = CacheCleared(@)]
  /\ hist' = [hist EXCEPT ![c] = NoHist]
  /\ UNCHANGED <<stage, owner, data, pending, sweep, threads, ret, refs, pair>>

\* The owner of c drops its reference.  Unless something else still holds the
\* handle it is deallocated at once and its weak key leaves _caches.
DropRef(c) ==
  /\ stage[c] = "live" /\ owner[c] /\ ~OnThread(c)
  /\ owner' = [owner EXCEPT ![c] = FALSE]
  /\ LET dying == IF Referenced(c, owner', sweep.cur) THEN {} ELSE {c}
     IN /\ stage' = Buried(stage, dying, "dead")
        /\ caches' = Buried(caches, dying, FreshCache)
        /\ hist' = Buried(hist, dying, NoHist)
        /\ data' = DataAfter(dying)
        /\ pending' = PendingAfter(dying)
  /\ UNCHANGED <<sweep, threads, ret, refs, pair>>

\* clear_all_caches(), first step: the generator of _caches.keys() enters its
\* guard and starts iterating the dict, whose size the iterator notes.
SweepStart ==
  /\ sweep.pc = "idle"
  /\ sweep' = [IdleSweep EXCEPT !.pc = "iter", !.pos = 1, !.used = Len(data)]
  /\ UNCHANGED <<caches, stage, owner, data, pending, threads, ret, hist,
                 refs, pair>>

\* One turn of the loop: the next weak key of the dict; a live referent is
\* bound to the loop variable (the previous one is released) and cleared, a
\* dead one is passed over.
SweepNext ==
  /\ sweep.pc = "iter"
  /\ Len(data) = sweep.used
  /\ sweep.pos <= Len(data)
  /\ LET k == data[sweep.pos]
         old == sweep.cur
     IN IF stage[k] = "live"
          THEN LET dying == IF old # 0 /\ old # k /\ ~Referenced(old, owner, k)
                              THEN {old} ELSE {}
               IN /\ sweep' = [sweep EXCEPT !.pos = @ + 1, !.cur = k,
                                 !.cleared = @ \cup {k},
                                 !.emptied = IF CurrSize(caches[k]) > 0
                                               THEN @ \cup {k} ELSE @]
                  /\ caches' = Buried([caches EXCEPT ![k] = CacheCleared(@)],
                                      dying, FreshCache)
                  /\ hist' = Buried([hist EXCEPT ![k] = NoHist], dying, NoHist)
                  /\ stage' = Buried(stage, dying, "dead")
                  /\ data' = DataAfter(dying)
                  /\ pending' = PendingAfter(dying)
        ELSE /\ sweep' = [sweep EXCEPT !.pos = @ + 1]
             /\ UNCHANGED <<caches, hist, stage, data, pending>>
  /\ UNCHANGED <<owner, threads, ret, refs, pair>>

\* The loop ends: the dict iterator is exhausted, or it finds the dict's size
\* changed and raises RuntimeError.  Either way the guard commits the pending
\* removals, and the frame's loop variable is released.
SweepFinish ==
  /\ sweep.pc = "iter"
  /\ Len(data) # sweep.used \/ sweep.pos > Len(data)
  /\ LET old == sweep.cur
         dying == IF old # 0 /\ ~Referenced(old, owner, 0) THEN {old} ELSE {}
     IN /\ sweep' = [sweep EXCEPT !.pc = "idle", !.cur = 0,
                       !.outcome = IF Len(data) # sweep.used
                                     THEN "raised" ELSE "returned"]
        /\ data' = SelectSeq(data, LAMBDA k : k \notin pending \cup dying)
        /\ pending' = {}
        /\ stage' = Buried(stage, dying, "dead")
        /\ caches' = Buried(caches, dying, FreshCache)
        /\ hist' = Buried(hist, dying, NoHist)
  /\ UNCHANGED <<owner, threads, ret, refs, pair>>

\* ------------------------------------------------- one cache, one thread
\* The handle a single call site owns.
UnitHandles == { CHOOSE c \in Handles : \A d \in Handles : c <= d }

Next ==
  \/ \E c \in UnitHandles, size \in MaxSizeArgs, tcik \in BOOLEAN :
       Construct(c, "cache", size, tcik)
  \/ \E c \in UnitHandles, inp \in CallInputs, ctx \in Contexts,
        leak \in BOOLEAN, ok \in BOOLEAN :
       Call(c, inp, ctx, leak, ok)
  \/ \E c \in UnitHandles : CacheClear(c)

Spec == Init /\ [][Next]_vars

\* ------------------------------- the registry, its sweep and the collector
\* The caches the program registers: cache(MaxSize, trace_context_in_key=False),
\* memoize, and weakref_lru_cache(f, MaxSize).
SizeNone == [none |-> TRUE, n |-> 0]
SizeOf(n) == [none |-> FALSE, n |-> n]
CacheConfigs == { [size |-> SizeOf(MaxSize), tcik |-> FALSE],
                  [size |-> SizeNone, tcik |-> TRUE] }
WeakrefConfigs == { [size |-> SizeOf(MaxSize), tcik |-> TRUE] }
RegistryInputs == { inp \in CallInputs : inp.args = <<1>> /\ inp.kwargs = << >> }
RegistryContexts == { ctx \in Contexts : \A other \in Contexts : ctx <= other }

\* Caches are made, and filled by a first call, between sweeps; owners drop
\* their caches at any time, during a sweep too.
NextRegistry ==
  \/ /\ sweep.pc = "idle"
     /\ \E c \in Handles, cfg \in CacheConfigs :
          Construct(c, "cache", cfg.size, cfg.tcik)
  \/ /\ sweep.pc = "idle"
     /\ \E c \in Handles, cfg \in WeakrefConfigs :
          Construct(c, "weakref_lru_cache", cfg.size, cfg.tcik)
  \/ /\ sweep.pc = "idle"
     /\ \E c \in Handles, inp \in RegistryInputs, ctx \in RegistryContexts :
          caches[c].misses = 0 /\ Call(c, inp, ctx, FALSE, TRUE)
  \/ \E c \in Handles : DropRef(c)
  \/ SweepStart
  \/ SweepNext
  \/ SweepFinish

SpecRegistry == Init /\ [][NextRegistry]_vars

\* clear_all_caches() is a loop of one thread, which the interpreter keeps
\* scheduling: a turn of the loop, or its end, that stays possible is taken.
SpecRegistryFair == SpecRegistry /\ WF_vars(SweepNext) /\ WF_vars(SweepFinish)

\* The registry when other threads construct (and so register) caches while
\* one thread sweeps.  The interpreter switches threads inside the loop of
\* clear_all_caches() (at the call of cache_clear() and at the jump back), so
\* a registration falls in once the loop has taken its first key.
InLoopBody == sweep.pc = "iter" /\ sweep.pos > 1

NextRace ==
  \/ /\ sweep.pc = "idle" \/ InLoopBody
     /\ \E c \in Handles, cfg \in CacheConfigs :
          Construct(c, "cache", cfg.size, cfg.tcik)
  \/ /\ sweep.pc = "idle" \/ InLoopBody
     /\ \E c \in Handles, cfg \in WeakrefConfigs :
          Construct(c, "weakref_lru_cache", cfg.size, cfg.tcik)
  \/ /\ sweep.pc = "idle"
     /\ \E c \in Handles, inp \in RegistryInputs, ctx \in RegistryContexts :
          caches[c].misses = 0 /\ Call(c, inp, ctx, FALSE, TRUE)
  \/ \E c \in Handles : DropRef(c)
  \/ SweepStart
  \/ SweepNext
  \/ SweepFinish

SpecRace == Init /\ [][NextRace]_vars

\* ------------------------------------------------ one cache, many threads
\* A thread enters wrapper(): with the leak check on it goes straight to f;
\* otherwise the lru_cache object looks the key up, and on a hit the call is
\* over, while on a miss the thread leaves the object to run f.
CallBegin(t, c, inp, ctx, leak) ==
  /\ threads[t].pc = "idle"
  /\ stage[c] = "live" /\ owner[c]
  /\ caches[c].hits + caches[c].misses < MaxCalls
  /\ LET s == caches[c]
         key == WrapperKey(s, ctx, inp)
         run == [pc |-> "running", c |-> c, ctx |-> ctx, inp |-> inp, mode |-> "miss"]
     IN IF Bypass(s, leak)
          THEN /\ threads' = [threads EXCEPT ![t] = [run EXCEPT !.mode = "bypass"]]
               /\ UNCHANGED <<caches, ret>>
        ELSE IF IsHit(s, key)
          THEN /\ caches' = [caches EXCEPT ![c] = LookupHit(s, key)]
               /\ ret' = Returned(s.cache[key], FALSE)
               /\ UNCHANGED threads
        ELSE /\ caches' = [caches EXCEPT ![c] = LookupMiss(s)]
             /\ threads' = [threads EXCEPT ![t] = run]
             /\ UNCHANGED ret
  /\ UNCHANGED <<stage, owner, data, pending, sweep, hist, refs, pair>>

\* f comes back to the thread: a result is stored by the lru_cache object (on
\* the miss path), an exception passes through; either goes to the caller.
CallEnd(t, ok) ==
  /\ threads[t].pc = "running"
  /\ LET c == threads[t].c
         inp == threads[t].inp
         s == caches[c]
         key == WrapperKey(s, threads[t].ctx, inp)
         val == UserFunction(inp.args, inp.kwargs)
     IN /\ ret' = IF ok THEN Returned(val, TRUE) ELSE Raised
        /\ IF threads[t].mode = "miss"
             THEN /\ caches' = [caches EXCEPT ![c] = IF ok THEN Store(s, key, val) ELSE s]
                  /\ hist' = [hist EXCEPT ![c] =
                                Invoked(s, @, CallId(threads[t].ctx, inp), ok)]
             ELSE UNCHANGED <<caches, hist>>
  /\ threads' = [threads EXCEPT ![t] = IdleThread]
  /\ UNCHANGED <<stage, owner, data, pending, sweep, refs, pair>>

\* The threads of this system call f(a) for the positional arguments of Args
\* under one trace context: which of them share a key is what matters here.
ThreadInputs == { inp \in CallInputs : inp.kwargs = << >> }
ThreadContexts == { 1 }

NextThreads ==
  \/ \E c \in UnitHandles, size \in MaxSizeArgs, tcik \in BOOLEAN :
       Construct(c, "cache", size, tcik)
  \/ \E t \in Threads, c \in UnitHandles, inp \in ThreadInputs,
        ctx \in ThreadContexts, leak \in BOOLEAN :
       CallBegin(t, c, inp, ctx, leak)
  \/ \E t \in Threads, ok \in BOOLEAN : CallEnd(t, ok)

SpecThreads == Init /\ [][NextThreads]_vars

\* ------------------------------- weakref_lru_cache and its first argument
\* A cache that holds the first argument of its entries strongly.
HeldByEntries(x) ==
  \E c \in Handles : stage[c] = "live" /\ KeyedBy(caches[c], x) # {}

\* Does a cache keep the object x alive?  It refers to the first argument of
\* a cached call weakly only.
HeldByCache(x) == FALSE

\* The program drops its last reference to the object x.  Unless a cache
\* keeps x alive it is collected, and the weak-reference callback removes the
\* entries whose first argument it was.
DropObj(x) ==
  /\ refs[x]
  /\ refs' = [refs EXCEPT ![x] = FALSE]
  /\ caches' = IF HeldByCache(x) THEN caches
               ELSE [c \in Handles |->
                       IF caches[c].kind = "weakref_lru_cache"
                         THEN Forget(caches[c], x) ELSE caches[c]]
  /\ UNCHANGED <<stage, owner, data, pending, sweep, threads, ret, hist, pair>>

\* The program makes a new object of the shape of x (equal to it and with
\* the same hash) once it holds x no more.
NewObj(x) ==
  /\ ~refs[x]
  /\ refs' = [refs EXCEPT ![x] = TRUE]
  /\ UNCHANGED <<caches, stage, owner, data, pending, sweep, threads, ret,
                 hist, pair>>

\* The calls f(x, a): x an object the caller holds, or the primitive; a the
\* first of the argument values.
WeakInputs ==
  { [args |-> <<x, a>>, kwargs |-> << >>] :
      x \in Objects \cup {Primitive},
      a \in { b \in Args : \A other \in Args : b <= other } }

WeakCall(c, inp, ctx, ok) ==
  /\ caches[c].kind = "weakref_lru_cache"
  /\ inp.args[1] \in Objects => refs[inp.args[1]]
  /\ Call(c, inp, ctx, FALSE, ok)

NextWeak ==
  \/ \E c \in UnitHandles, size \in MaxSizeArgs, tcik \in BOOLEAN :
       Construct(c, "weakref_lru_cache", size, tcik)
  \/ \E c \in UnitHandles, inp \in WeakInputs, ctx \in RegistryContexts,
        ok \in BOOLEAN :
       WeakCall(c, inp, ctx, ok)
  \/ \E x \in Objects : DropObj(x)
  \/ \E x \in Objects : NewObj(x)

SpecWeak == Init /\ [][NextWeak]_vars

\* ------------------------------------------------- the equality wrappers
\* The Python values the wrappers are built from.  A value is an object (id)
\* with contents (val); the odd ones are hashable (a tuple, a frozenset), the
\* even ones are not (a list, a set).  The first four have the same contents,
\* so that equal values are not always the same object.
PyValues ==
  { [id |-> i, hashable |-> i % 2 = 1, val |-> ((i - 1) \div 4) + 1] :
      i \in 1..NumValues }

\* x == y, x is y, id(x) and hash(x) on these values; hash(x) raises TypeError
\* for the unhashable ones.
PyEq(x, y) == x.val = y.val
PyIs(x, y) == x.id = y.id
PyId(x) == x.id
HashOf(h) == [ok |-> TRUE, h |-> h % (2 ^ 16)]
HashRaises == [ok |-> FALSE, h |-> 0]
PyHash(x) == IF x.hashable THEN HashOf(x.val) ELSE HashRaises

\* hash() of a tuple: it raises if hashing a component does, and else
\* combines the components' hashes in order.
RECURSIVE HashTuple(_)
HashTuple(hs) ==
  IF hs = << >> THEN HashOf(1)
  ELSE LET rest == HashTuple(Tail(hs))
       IN IF ~Head(hs).ok \/ ~rest.ok THEN HashRaises
          ELSE HashOf(31 * rest.h + Head(hs).h + 7)

\* Code objects (f.__code__) compare and hash by value; a function is known
\* here by its code.
Codes == 1..NumCodes
CodeEq(f, g) == f = g
CodeHash(f) == HashOf(f)

\* Tuples compare element by element.
TupleEq(s, t) ==
  /\ Len(s) = Len(t)
  /\ \A i \in DOMAIN s : PyIs(s[i], t[i]) \/ PyEq(s[i], t[i])

\* A dict of keyword arguments is the sequence of its items <<name, value>>
\* in insertion order.  Dicts compare without regard to that order.
KwNames(kw) == { kw[i][1] : i \in DOMAIN kw }
DictEq(k1, k2) ==
  /\ KwNames(k1) = KwNames(k2)
  /\ \A i \in DOMAIN k1, j \in DOMAIN k2 :
       k1[i][1] = k2[j][1] => PyIs(k1[i][2], k2[j][2]) \/ PyEq(k1[i][2], k2[j][2])

\* sorted(items, key=lambda kv: kv[0])
RECURSIVE SortedByKey(_)
SortedByKey(items) ==
  IF items = << >> THEN << >>
  ELSE LET least == CHOOSE i \in DOMAIN items :
                      \A j \in DOMAIN items : items[i][1] <= items[j][1]
       IN <<items[least]>> \o
          SortedByKey(SubSeq(items, 1, least - 1) \o
                      SubSeq(items, least + 1, Len(items)))

\* class HashableFunction: __init__(self, f, closure)
HashableFunction(f, closure) ==
  [cls |-> "HashableFunction", f |-> f, closure |-> closure]

\* An __eq__ that compares the code only.
HashableFunctionEqByCode(self, other) ==
  other.cls = "HashableFunction" /\ CodeEq(self.f, other.f)

HashableFunction__eq__(self, other) ==
  /\ other.cls = "HashableFunction"
  /\ CodeEq(self.f, other.f)
  /\ PyEq(self.closure, other.closure)

HashableFunction__hash__(self) ==
  HashTuple(<<CodeHash(self.f), PyHash(self.closure)>>)

\* class HashablePartial: __init__(self, f, *args, **kwargs)
HashablePartial(f, args, kwargs) ==
  [cls |-> "HashablePartial", f |-> f, args |-> args, kwargs |-> kwargs]

HashablePartial__eq__(self, other) ==
  /\ other.cls = "HashablePartial"
  /\ CodeEq(self.f, other.f)
  /\ TupleEq(self.args, other.args)
  /\ DictEq(self.kwargs, other.kwargs)

HashItems(items) ==
  HashTuple([i \in DOMAIN items |->
               HashTuple(<<HashOf(items[i][1]), PyHash(items[i][2])>>)])

\* A __hash__ that takes the keyword items as the dict yields them.
HashablePartialHashUnsorted(self) ==
  HashTuple(<<CodeHash(self.f),
              HashTuple([i \in DOMAIN self.args |-> PyHash(self.args[i])]),
              HashItems(self.kwargs)>>)

HashablePartial__hash__(self) ==
  LET kwargs == SortedByKey(self.kwargs)
  IN HashTuple(<<CodeHash(self.f),
                 HashTuple([i \in DOMAIN self.args |-> PyHash(self.args[i])]),
                 HashItems(kwargs)>>)

\* class HashableWrapper: __init__(self, x); self.hash is None when hash(x)
\* raised, which the record of a raising hash stands for.
HashableWrapper(x) == [cls |-> "HashableWrapper", x |-> x, hash |-> PyHash(x)]

HashableWrapper__hash__(self) ==
  IF self.hash.ok THEN self.hash ELSE HashOf(PyId(self.x))

\* An __eq__ that always compares the wrapped values.
HashableWrapperEqByValue(self, other) ==
  IF other.cls # "HashableWrapper" THEN FALSE ELSE PyEq(self.x, other.x)

HashableWrapper__eq__(self, other) ==
  IF other.cls # "HashableWrapper" THEN FALSE
  ELSE IF self.hash.ok THEN PyEq(self.x, other.x)
  ELSE PyIs(self.x, other.x)

\* An object of some other type.
PlainObject == [cls |-> "object"]

\* self.__eq__(other) and hash(self) by the class of self.
Eq(self, other) ==
  CASE self.cls = "HashableFunction" -> HashableFunction__eq__(self, other)
    [] self.cls = "HashablePartial" -> HashablePartial__eq__(self, other)
    [] self.cls = "HashableWrapper" -> HashableWrapper__eq__(self, other)
    [] OTHER -> FALSE

Hash(self) ==
  CASE self.cls = "HashableFunction" -> HashableFunction__hash__(self)
    [] self.cls = "HashablePartial" -> HashablePartial__hash__(self)
    [] self.cls = "HashableWrapper" -> HashableWrapper__hash__(self)
    [] OTHER -> HashOf(0)

\* The wrapper objects a program builds: functions with any value as closure;
\* partials with at most one positional and two keyword arguments, the
\* keywords in either order; wrappers of any value.
KwValues == { v \in PyValues : v.hashable }
PartialKwargs ==
  {<< >>} \cup { << <<1, v>> >> : v \in KwValues }
          \cup { << <<1, v>>, <<2, w>> >> : v \in KwValues, w \in KwValues }
          \cup { << <<2, w>>, <<1, v>> >> : v \in KwValues, w \in KwValues }
Functions == { HashableFunction(f, c) : f \in Codes, c \in PyValues }
Partials ==
  { HashablePartial(f, args, kw) :
      f \in Codes, args \in {<< >>} \cup { <<v>> : v \in PyValues },
      kw \in PartialKwargs }
Wrappers == { HashableWrapper(x) : x \in PyValues }
Hashables == Functions \cup Partials \cup Wrappers

NewPair(a, b) ==
  [a |-> a, b |-> b, compared |-> FALSE, eq |-> FALSE,
   hashed |-> FALSE, ha |-> HashRaises, hb |-> HashRaises]

\* Two objects are at hand; the program compares them (a == b) and hashes
\* them, in either order.
InitPair ==
  /\ InitRegistry
  /\ pair \in { NewPair(a, b) : a \in Hashables, b \in Hashables \cup {PlainObject} }

Compare ==
  /\ ~pair.compared
  /\ pair' = [pair EXCEPT !.compared = TRUE, !.eq = Eq(pair.a, pair.b)]
  /\ UNCHANGED <<caches, stage, owner, data, pending, sweep, threads, ret,
                 hist, refs>>

TakeHashes ==
  /\ ~pair.hashed
  /\ pair' = [pair EXCEPT !.hashed = TRUE, !.ha = Hash(pair.a),
                          !.hb = Hash(pair.b)]
  /\ UNCHANGED <<caches, stage, owner, data, pending, sweep, threads, ret,
                 hist, refs>>

NextPair == Compare \/ TakeHashes

SpecPair == InitPair /\ [][NextPair]_vars

\* ------------------------------------------------------------------ claims
Live == { c \in Handles : stage[c] = "live" }
ByCache == { c \in Live : caches[c].kind = "cache" }

\* Would a call with these arguments under this context be served from s?
Cached(s, id) ==
  IsHit(s, WrapperKey(s, id.ctx, [args |-> id.args, kwargs |-> id.kwargs]))

\* Since c was last empty there was no clear and the distinct keys asked for
\* number at most max_size.
WithinCapacity(c) ==
  /\ hist[c].scope
  /\ \/ caches[c].unbounded
     \/ DistinctKeys(caches[c], hist[c].tried) <= caches[c].maxsize

TriedKey(c, id) == \E x \in hist[c].tried : SameKey(caches[c], x, id)
DoneKey(c, id) == \E x \in hist[c].done : SameKey(caches[c], x, id)

\* C1 as written: with the leak-check flag off, no clear and at most max_size
\* distinct keys, the wrapped function is invoked at most once per key: a call
\* whose key was already asked for never invokes it.
C1_InvokedAtMostOnce ==
  \A c \in ByCache :
    WithinCapacity(c) =>
      \A inp \in CallInputs, ctx \in Contexts, ok \in BOOLEAN :
        TriedKey(c, CallId(ctx, inp))
          => ~Wrapper(caches[c], inp, ctx, FALSE, ok).ret.invoked

\* C1 amended: under the same conditions the wrapped function returns normally
\* at most once per key: once a call with key K has returned, every later call
\* with an equal key is a hit that hands back the value f returned for it,
\* without invoking f.
C1_Memoized ==
  \A c \in ByCache :
    WithinCapacity(c) =>
      \A inp \in CallInputs, ctx \in Contexts, ok \in BOOLEAN :
        DoneKey(c, CallId(ctx, inp)) =>
          LET r == Wrapper(caches[c], inp, ctx, FALSE, ok)
          IN /\ ~r.ret.invoked /\ r.ret.ok
             /\ r.ret.val = UserFunction(inp.args, inp.kwargs)
             /\ r.s.hits = caches[c].hits + 1
             /\ r.s.cache = caches[c].cache

C1_Witness ==
  \E c \in ByCache :
    /\ WithinCapacity(c)
    /\ ~caches[c].unbounded /\ caches[c].maxsize = 2
    /\ DistinctKeys(caches[c], hist[c].done) = 2
    /\ caches[c].hits >= 1
    /\ ret.ok /\ ~ret.invoked

\* The state after max_size + 1 successful calls with pairwise distinct keys on
\* an empty bounded cache: every miss was a distinct key and returned.
AfterFill(c) ==
  LET s == caches[c]
      h == hist[c]
  IN /\ ~s.unbounded /\ s.maxsize >= 1
     /\ h.scope /\ h.done = h.tried
     /\ s.hits = 0 /\ s.misses = s.maxsize + 1
     /\ Cardinality(h.tried) = s.maxsize + 1
     /\ DistinctKeys(s, h.tried) = s.maxsize + 1

\* C2: after N+1 successful distinct-key calls on an empty cache of capacity N
\* exactly one entry is gone, the one of the first key called; a call with that
\* key is then a miss that invokes f, a call with any of the others a hit.
C2_LruEviction ==
  \A c \in ByCache :
    AfterFill(c) =>
      LET s == caches[c]
          first == hist[c].first[1]
      IN /\ CurrSize(s) = s.maxsize
         /\ ~Cached(s, first)
         /\ \A id \in hist[c].tried \ {first} : Cached(s, id)
         /\ \A inp \in CallInputs, ctx \in Contexts, ok \in BOOLEAN :
              LET r == Wrapper(s, inp, ctx, FALSE, ok)
              IN /\ SameKey(s, first, CallId(ctx, inp))
                      => (r.ret.invoked /\ r.s.misses = s.misses + 1)
                 /\ (\E id \in hist[c].tried \ {first} : SameKey(s, id, CallId(ctx, inp)))
                      => (~r.ret.invoked /\ r.s.hits = s.hits + 1)

C2_Witness ==
  \E c \in ByCache : AfterFill(c) /\ caches[c].maxsize = 2

\* C3: cache_clear() leaves the cache empty, and the first call made after it
\* invokes the wrapped function, whatever was cached before.
C3_ClearThenMiss ==
  \A c \in ByCache :
    LET s == CacheCleared(caches[c])
    IN /\ CurrSize(s) = 0
       /\ \A inp \in CallInputs, ctx \in Contexts, leak \in BOOLEAN, ok \in BOOLEAN :
            LET r == Wrapper(s, inp, ctx, leak, ok)
            IN r.ret.invoked /\ r.s.hits = 0

\* A populated cache has just been cleared: the last call ran f and stored its
\* result, and nothing is left of it.
C3_Witness ==
  \E c \in UnitHandles :
    /\ stage[c] = "live" /\ ~caches[c].tcik /\ ~Uncached(caches[c])
    /\ ret.ok /\ ret.invoked
    /\ hist[c] = NoHist /\ caches[c] = CacheCleared(caches[c])

\* C4: a call that raises because f raised hands the exception to the caller
\* and stores nothing; no entry for its key exists afterwards, and the next
\* call with that key invokes f again.
C4_FailuresNotCached ==
  \A c \in ByCache :
    \A inp \in CallInputs, ctx \in Contexts :
      LET s == caches[c]
          r == Wrapper(s, inp, ctx, FALSE, FALSE)
      IN r.ret.invoked =>
           /\ r.ret = Raised
           /\ r.s.cache = s.cache /\ r.s.order = s.order
           /\ ~Cached(r.s, CallId(ctx, inp))
           /\ \A ok \in BOOLEAN : Wrapper(r.s, inp, ctx, FALSE, ok).ret.invoked

\* A call has just raised on a cache that holds other entries.
C4_Witness ==
  \E c \in ByCache :
    /\ ~Uncached(caches[c])
    /\ ret = Raised
    /\ hist[c].scope /\ hist[c].tried # hist[c].done
    /\ CurrSize(caches[c]) >= 1

\* C7 as written: with the leak-check flag on, a call on any cache made by
\* cache() invokes f directly and leaves the cache as it was.
C7_BypassLeavesCacheUntouched ==
  \A c \in ByCache :
    \A inp \in CallInputs, ctx \in Contexts, ok \in BOOLEAN :
      LET r == Wrapper(caches[c], inp, ctx, TRUE, ok)
      IN r.ret.invoked /\ r.s = caches[c]

\* C8: with trace_context_in_key, a call whose arguments were never asked for
\* under the present context invokes f, whatever is cached for other contexts,
\* and one whose arguments were computed under the present context is served
\* from the cache; without it, the context changes nothing about a call.
C8_ContextIsolation ==
  \A c \in ByCache :
    \A inp \in CallInputs, ctx \in Contexts, ok \in BOOLEAN :
      LET s == caches[c]
          r == Wrapper(s, inp, ctx, FALSE, ok)
      IN /\ (s.tcik /\ hist[c].scope /\ CallId(ctx, inp) \notin hist[c].tried)
              => r.ret.invoked
         /\ (s.tcik /\ WithinCapacity(c) /\ CallId(ctx, inp) \in hist[c].done)
              => ~r.ret.invoked
         /\ ~s.tcik
              => \A other \in Contexts : Wrapper(s, inp, other, FALSE, ok) = r

\* The same arguments are cached under two contexts, as two entries.
C8_Witness ==
  \E c \in ByCache :
    /\ caches[c].tcik /\ hist[c].scope
    /\ \E x \in hist[c].done, y \in hist[c].done :
         /\ x.ctx # y.ctx /\ x.args = y.args /\ x.kwargs = y.kwargs
         /\ Cached(caches[c], x) /\ Cached(caches[c], y)
    /\ CurrSize(caches[c]) >= 2
    /\ ret.invoked

\* The step on which clear_all_caches() is over.
SweepEnds == sweep.pc = "iter" /\ sweep'.pc = "idle"

\* C5: every live cache of either kind is in the registry, and a handle that
\* was collected is not there when a sweep starts; clear_all_caches() comes
\* back without an error, and when it does every cache still live is empty, so
\* that the next call on it, whatever its key, invokes the function.
C5_ClearAllEmptiesLive ==
  /\ [](\A c \in Live : c \in Registered(data))
  /\ [](sweep.pc = "idle" => \A c \in Registered(data) : stage[c] = "live")
  /\ [][SweepEnds =>
          /\ sweep'.outcome = "returned"
          /\ \A c \in Handles : stage'[c] = "live" =>
               /\ CurrSize(caches'[c]) = 0
               /\ \A inp \in CallInputs, ctx \in Contexts, ok \in BOOLEAN :
                    CallOn(caches'[c], inp, ctx, FALSE, ok).ret.invoked]_vars

\* A sweep has returned, having emptied a cache that held an entry and is
\* still live, while another handle had been collected.
C5_Witness ==
  /\ sweep.pc = "idle" /\ sweep.outcome = "returned"
  /\ \E c \in sweep.emptied : stage[c] = "live" /\ CurrSize(caches[c]) = 0
  /\ \E d \in Handles : stage[d] = "dead" /\ d \notin Registered(data)

\* C6: every handle the registry yields is alive, and only through references
\* held outside the registry (its owner's, a running sweep's loop variable, a
\* running call); a collected handle has no entry; and an entry leaves the
\* registry only because its handle was collected.
C6_WeakRegistry ==
  /\ [](\A c \in RegistryKeys :
          stage[c] = "live" /\ (owner[c] \/ sweep.cur = c \/ OnThread(c)))
  /\ [](\A c \in Handles : stage[c] = "dead" => c \notin RegistryKeys)
  /\ [][\A c \in RegistryKeys : c \notin RegistryKeys' => stage'[c] = "dead"]_vars

\* A handle was dropped and collected, and its entry is gone, while another
\* cache is still registered.
C6_Witness ==
  /\ \E c \in Handles : stage[c] = "dead" /\ c \notin RegistryKeys
  /\ \E d \in RegistryKeys : stage[d] = "live" /\ owner[d]

\* C9: whatever the interleaving of the threads' calls on one cache, its
\* table stays consistent: the recency list of a bounded cache names each
\* stored key exactly once, the entries never number more than the capacity,
\* and every stored value is the value f returns for the arguments of its key.
C9_TableConsistent ==
  \A c \in ByCache :
    LET s == caches[c]
    IN /\ ~s.unbounded =>
            /\ Len(s.order) = CurrSize(s)
            /\ { s.order[i] : i \in DOMAIN s.order } = Keys(s)
            /\ CurrSize(s) <= s.maxsize
       /\ \A key \in Keys(s) :
            \E inp \in CallInputs, ctx \in Contexts :
              /\ WrapperKey(s, ctx, inp) = key
              /\ s.cache[key] = UserFunction(inp.args, inp.kwargs)

\* Two threads are running f at once after missing on the same key of a
\* bounded cache.
C9_Witness ==
  \E t1, t2 \in Threads :
    /\ t1 # t2
    /\ threads[t1].pc = "running" /\ threads[t1].mode = "miss"
    /\ threads[t2].pc = "running" /\ threads[t2].mode = "miss"
    /\ threads[t1].c = threads[t2].c
    /\ threads[t1].inp = threads[t2].inp /\ threads[t1].ctx = threads[t2].ctx
    /\ ~caches[threads[t1].c].unbounded /\ caches[threads[t1].c].maxsize > 0

\* C10: handles may be collected at any point of a sweep; the sweep still
\* never raises, it ends, and when it ends every registered handle that is
\* still live has been cleared by it.
C10_SweepSurvivesCollection ==
  /\ [](sweep.outcome # "raised")
  /\ [][SweepEnds =>
          \A c \in Handles : stage'[c] = "live" =>
            c \in sweep'.cleared /\ CurrSize(caches'[c]) = 0]_vars
  /\ (Iterating ~> ~Iterating)

\* The loop has run out of keys with the size of the dict unchanged, after a
\* handle was collected during the iteration (its removal is pending) and
\* another was cleared.
C10_Witness ==
  /\ Iterating /\ pending # {}
  /\ sweep.pos > Len(data) /\ Len(data) = sweep.used
  /\ sweep.cleared # {}


\* C11: with registrations interleaved with a sweep, the sweep does not
\* raise, every live cache stays registered, and when the sweep ends every
\* cache that was registered before it started and is still live was cleared.
C11_SweepToleratesRegistration ==
  /\ [](sweep.outcome # "raised")
  /\ [](\A c \in Live : c \in RegistryKeys)
  /\ [][SweepEnds =>
          \A i \in 1..sweep.used :
            stage'[data[i]] = "live" => data[i] \in sweep.cleared]_vars

ByWeakref == { c \in Live : caches[c].kind = "weakref_lru_cache" }

\* C12: a weakref_lru_cache holds no entry whose first argument the program
\* has dropped: once the last outside reference to X is gone X is collected,
\* a following call with a new object of the same shape invokes the function,
\* and the collection takes exactly the entries of X with it (the entries of
\* other first arguments, with the arguments they hold, stay).
C12_WeakFirstArgument ==
  /\ [](\A c \in ByWeakref :
          /\ \A key \in Keys(caches[c]) : refs[key[2]]
          /\ \A inp \in WeakInputs, ctx \in Contexts :
               (inp.args[1] \in Objects /\ ~refs[inp.args[1]]) =>
                 WeakrefCall(caches[c], inp, ctx, TRUE).ret.invoked)
  /\ [][\A x \in Objects : (refs[x] /\ ~refs'[x]) =>
          \A c \in ByWeakref :
            /\ Keys(caches'[c]) = Keys(caches[c]) \ KeyedBy(caches[c], x)
            /\ \A key \in Keys(caches'[c]) : caches'[c].cache[key] = caches[c].cache[key]]_vars

\* The program has dropped an object whose call was cached (the last call
\* stored under it), and the cache, which still holds the entry of another
\* object, has none for it.
C12_Witness ==
  \E c \in ByWeakref, x \in Objects :
    /\ ~refs[x]
    /\ hist[c].scope /\ \E id \in hist[c].done : id.args[1] = x
    /\ KeyedBy(caches[c], x) = {}
    /\ CurrSize(caches[c]) > 0

\* C13: a call on a weakref_lru_cache whose first argument cannot be weakly
\* referenced is a direct call of the function: the caller gets what the
\* function returns (or raises) and the cache is left as it was.
C13_PrimitiveFirstArgument ==
  \A c \in ByWeakref, inp \in WeakInputs, ctx \in Contexts, ok \in BOOLEAN :
    inp.args[1] = Primitive =>
      LET r == WeakrefCall(caches[c], inp, ctx, ok)
      IN /\ r.s = caches[c]
         /\ r.ret = IF ok THEN Returned(UserFunction(inp.args, inp.kwargs), TRUE)
                    ELSE Raised

\* A call with the primitive as first argument has just returned the
\* function's value, on a cache that holds an entry and has no entry for it.
C13_Witness ==
  \E c \in ByWeakref :
    /\ ret.ok /\ ret.invoked /\ ret.val.args[1] = Primitive
    /\ CurrSize(caches[c]) > 0
    /\ KeyedBy(caches[c], Primitive) = {}

\* C14: no step constructs a cache from a negative max_size: such a
\* construction fails, creating no cache and registering nothing.
C14_InvalidCapacityRejected ==
  [][\A c \in Handles, size \in MaxSizeArgs, tcik \in BOOLEAN :
       (~size.none /\ size.n < 0) => ~Construct(c, "cache", size, tcik)]_vars

\* The contents of a tuple of values, and of a dict's items.
Contents(args) == [i \in DOMAIN args |-> args[i].val]
ItemContents(kw) == { <<kw[i][1], kw[i][2].val>> : i \in DOMAIN kw }

\* C15: a HashableFunction equals another object exactly when that object is
\* a HashableFunction with the same code and an equal closure; and two equal
\* instances that can be hashed have the same hash.
C15_HashableFunctionEquality ==
  pair.a.cls = "HashableFunction" =>
    /\ pair.compared =>
         (pair.eq <=> /\ pair.b.cls = "HashableFunction"
                      /\ pair.a.f = pair.b.f
                      /\ pair.a.closure.val = pair.b.closure.val)
    /\ (pair.compared /\ pair.hashed /\ pair.eq /\ pair.ha.ok /\ pair.hb.ok)
         => pair.ha.h = pair.hb.h

\* Two HashableFunctions with the same code, whose closures are distinct
\* objects with equal contents, were found equal and hashed alike.
C15_Witness ==
  /\ pair.compared /\ pair.hashed /\ pair.eq
  /\ pair.a.cls = "HashableFunction"
  /\ pair.a.closure.id # pair.b.closure.id
  /\ pair.ha.ok /\ pair.hb.ok

\* C16: two HashableWrappers of unhashable values are equal exactly when they
\* wrap the same object; two of hashable values with equal contents are equal
\* and have the same hash.
C16_HashableWrapperIdentity ==
  (pair.a.cls = "HashableWrapper" /\ pair.b.cls = "HashableWrapper"
     /\ pair.compared) =>
    /\ (~pair.a.x.hashable /\ ~pair.b.x.hashable)
         => (pair.eq <=> pair.a.x.id = pair.b.x.id)
    /\ (pair.a.x.hashable /\ pair.b.x.hashable /\ pair.a.x.val = pair.b.x.val)
         => /\ pair.eq
            /\ pair.hashed => (pair.ha.ok /\ pair.ha = pair.hb)

\* Two wrappers of distinct unhashable objects with the same contents were
\* compared, and found unequal.
C16_Witness ==
  /\ pair.a.cls = "HashableWrapper" /\ pair.b.cls = "HashableWrapper"
  /\ pair.compared /\ ~pair.eq
  /\ ~pair.a.x.hashable /\ ~pair.b.x.hashable
  /\ pair.a.x.id # pair.b.x.id /\ pair.a.x.val = pair.b.x.val

\* C17: a HashablePartial equals another object exactly when that object is a
\* HashablePartial with the same code, equal positional arguments, and the
\* same keyword arguments in whatever order; and two equal instances that can
\* be hashed have the same hash.
C17_HashablePartialEquality ==
  pair.a.cls = "HashablePartial" =>
    /\ pair.compared =>
         (pair.eq <=> /\ pair.b.cls = "HashablePartial"
                      /\ pair.a.f = pair.b.f
                      /\ Contents(pair.a.args) = Contents(pair.b.args)
                      /\ ItemContents(pair.a.kwargs) = ItemContents(pair.b.kwargs))
    /\ (pair.compared /\ pair.hashed /\ pair.eq /\ pair.ha.ok /\ pair.hb.ok)
         => pair.ha.h = pair.hb.h

\* Two HashablePartials that differ in the order of their two keywords were
\* found equal and hashed alike.
C17_Witness ==
  /\ pair.compared /\ pair.hashed /\ pair.eq
  /\ pair.a.cls = "HashablePartial"
  /\ Len(pair.a.kwargs) = 2 /\ pair.a.kwargs[1][1] # pair.b.kwargs[1][1]
  /\ pair.ha.ok /\ pair.ha.h = pair.hb.h

\* Every call a caller can make, and the outcome of making one that returns
\* (leak check off) on the cache object s.
AllCalls == { CallId(ctx, inp) : ctx \in Contexts, inp \in CallInputs }
After(s, id) ==
  Wrapper(s, [args |-> id.args, kwargs |-> id.kwargs], id.ctx, FALSE, TRUE)

\* s after each of the calls ids has been made once.
RECURSIVE Touched(_, _)
Touched(s, ids) ==
  IF ids = {} THEN s
  ELSE LET id == CHOOSE x \in ids : TRUE
       IN Touched(After(s, id).s, ids \ {id})

\* C18: on a full bounded cache, once every entry but one has been hit, the
\* call of a new key evicts exactly the entry that was not hit (the one whose
\* last access is oldest): a call with its key invokes f again, while the
\* entries that were hit are still served from the cache.  With capacity 2
\* this is A, B, A, C evicting B and keeping A.
C18_HitRefreshesRecency ==
  \A c \in ByCache :
    LET s == caches[c]
        cached == { id \in AllCalls : Cached(s, id) }
    IN (~s.unbounded /\ s.maxsize >= 1 /\ CurrSize(s) = s.maxsize) =>
         \A b \in cached, new \in AllCalls \ cached :
           LET others == { id \in cached : ~SameKey(s, id, b) }
               s1 == Touched(s, others)
               r == After(s1, new)
           IN /\ s1.cache = s.cache
              /\ s1.hits = s.hits + Cardinality(others)
              /\ r.ret.invoked
              /\ CurrSize(r.s) = s.maxsize
              /\ ~Cached(r.s, b) /\ After(r.s, b).ret.invoked
              /\ \A id \in others :
                   Cached(r.s, id) /\ ~After(r.s, id).ret.invoked

\* A cache of capacity 2 after the calls A, B, A, C: three distinct keys were
\* computed and one call was a hit, and the first key called is still cached
\* while one of the others is gone.
C18_Witness ==
  \E c \in ByCache :
    LET s == caches[c]
        h == hist[c]
    IN /\ ~s.unbounded /\ s.maxsize = 2
       /\ h.scope /\ h.done = h.tried
       /\ s.hits = 1 /\ s.misses = 3
       /\ DistinctKeys(s, h.tried) = 3
       /\ Cached(s, h.first[1])
       /\ \E id \in h.tried : ~Cached(s, id)

\* C19 as written: a call that raises because f raised leaves the cache
\* object as it was: entries, recency order and every figure of cache_info().
C19_FailedCallChangesNothing ==
  \A c \in ByCache :
    \A inp \in CallInputs, ctx \in Contexts :
      LET r == Wrapper(caches[c], inp, ctx, FALSE, FALSE)
      IN r.ret = Raised => r.s = caches[c]

\* C19 amended: such a call leaves the entries, the recency order, the hit
\* count, the size and the capacity as they were, and adds one to the miss
\* count: the lookup that missed is counted before f is invoked.  Only a call
\* that bypasses the cache (leak check on) leaves the miss count as it was.
C19_FailedCallCountsMiss ==
  \A c \in ByCache :
    \A inp \in CallInputs, ctx \in Contexts, leak \in BOOLEAN :
      LET s == caches[c]
          r == Wrapper(s, inp, ctx, leak, FALSE)
      IN r.ret = Raised =>
           /\ r.s = IF Bypass(s, leak) THEN s ELSE [s EXCEPT !.misses = @ + 1]
           /\ CurrSize(r.s) = CurrSize(s)

\* A call has just raised on a cache with one entry and no hit: the misses
\* counted number one more than the results stored.
C19_Witness ==
  \E c \in ByCache :
    LET s == caches[c]
    IN /\ ret = Raised /\ ~Uncached(s)
       /\ s.hits = 0 /\ CurrSize(s) = 1 /\ s.misses = 2
       /\ hist[c].scope /\ Cardinality(hist[c].done) = 1

\* Calls with the same positional and keyword arguments, the keywords in
\* whatever order.
SameArguments(inp1, inp2) ==
  UserFunction(inp1.args, inp1.kwargs) = UserFunction(inp2.args, inp2.kwargs)

\* C20 as written: of two calls under one context with the same arguments,
\* the keywords in a different order, the second is a hit.
C20_KeywordOrderIgnored ==
  \A c \in ByCache :
    \A inp1 \in CallInputs, inp2 \in CallInputs, ctx \in Contexts :
      (~Uncached(caches[c]) /\ SameArguments(inp1, inp2)) =>
        LET r1 == Wrapper(caches[c], inp1, ctx, FALSE, TRUE)
        IN ~Wrapper(r1.s, inp2, ctx, FALSE, TRUE).ret.invoked

\* C20 amended: the key takes the keyword arguments in the order of the
\* call.  Of two calls under one context with the same arguments, the second
\* is a hit when the keywords come in the same order; when they come in a
\* different order the keys differ, and unless that other key is cached too
\* the second call invokes f again, which returns an equal value.
C20_KeywordOrderInKey ==
  \A c \in ByCache :
    \A inp1 \in CallInputs, inp2 \in CallInputs, ctx \in Contexts :
      (~Uncached(caches[c]) /\ SameArguments(inp1, inp2)) =>
        LET s == caches[c]
            r1 == Wrapper(s, inp1, ctx, FALSE, TRUE)
            r2 == Wrapper(r1.s, inp2, ctx, FALSE, TRUE)
        IN /\ inp1.kwargs = inp2.kwargs => ~r2.ret.invoked
           /\ inp1.kwargs # inp2.kwargs =>
                /\ WrapperKey(s, ctx, inp1) # WrapperKey(s, ctx, inp2)
                /\ ~Cached(s, CallId(ctx, inp2)) =>
                     (r2.ret.invoked /\ r2.s.misses = r1.s.misses + 1)
           /\ r2.ret.ok /\ r2.ret.val = r1.ret.val

\* The same arguments were computed twice under one context, once for each
\* order of the keywords, and the cache holds an entry for each.
C20_Witness ==
  \E c \in ByCache :
    /\ hist[c].scope /\ caches[c].hits = 0
    /\ \E x \in hist[c].done, y \in hist[c].done :
         /\ x.ctx = y.ctx /\ x.kwargs # y.kwargs
         /\ UserFunction(x.args, x.kwargs) = UserFunction(y.args, y.kwargs)
         /\ Cached(caches[c], x) /\ Cached(caches[c], y)

\* C21: a cache with an integer capacity never holds more entries than that
\* capacity, whatever calls, failed calls, bypassed calls and clears were made
\* on it.  A cache built with max_size=None (memoize) never evicts: no call
\* removes or changes an entry, so every call that has returned since the last
\* clear is still cached, and a call with its key that goes through the cache
\* is a hit that does not invoke f.
C21_CapacityInvariant ==
  \A c \in ByCache :
    LET s == caches[c]
    IN /\ ~s.unbounded => CurrSize(s) <= s.maxsize
       /\ s.unbounded =>
            /\ hist[c].scope
            /\ \A id \in hist[c].done : Cached(s, id)
            /\ \A inp \in CallInputs, ctx \in Contexts,
                  leak \in BOOLEAN, ok \in BOOLEAN :
                 LET r == Wrapper(s, inp, ctx, leak, ok)
                 IN /\ Keys(s) \subseteq Keys(r.s)
                    /\ \A key \in Keys(s) : r.s.cache[key] = s.cache[key]
                    /\ (DoneKey(c, CallId(ctx, inp)) /\ ~Bypass(s, leak))
                         => (~r.ret.invoked /\ r.s.hits = s.hits + 1)

\* A cache of capacity 1 is full after two calls with distinct keys returned
\* and a third call failed: the second store evicted the first entry.
C21_Witness ==
  \E c \in ByCache :
    LET s == caches[c]
        h == hist[c]
    IN /\ ~s.unbounded /\ s.maxsize = 1 /\ CurrSize(s) = 1
       /\ h.scope /\ DistinctKeys(s, h.done) = 2
       /\ h.tried # h.done

\* C22: HashableWrapper equality is a consistent key relation over hashable
\* and unhashable wrapped values alike: for two wrappers a and b, a == b holds
\* exactly when b == a holds, and a == b implies hash(a) == hash(b).
C22_HashableWrapperSymmetric ==
  (pair.a.cls = "HashableWrapper" /\ pair.b.cls = "HashableWrapper"
     /\ pair.compared) =>
    /\ pair.eq <=> Eq(pair.b, pair.a)
    /\ (pair.eq /\ pair.hashed) => pair.ha = pair.hb

====
